---- MODULE Spec2Model ----
(***************************************************************************)
(* Model of torchgeo.datasets.neonspecies.NEONTreeSpecies: the dataset     *)
(* adapter over a filesystem holding the split directories, the split      *)
(* archives, the raster tiles and the training label shapefile.            *)
(*                                                                         *)
(* Paths are sequences of path components, so os.path.join is sequence     *)
(* concatenation and str.replace acts on the components.  A raster file is *)
(* represented by its band (channel) count, a label table by its sequence  *)
(* of rows.  Exceptions are the `result` of the call that raised them.     *)
(***************************************************************************)
EXTENDS Integers, Sequences, FiniteSets, TLC

\* ------------------------------------------------------------------ bounds
\* most tiles a directory holds
NumTiles == 2
\* most rows of a label table
MaxRows == 2
\* GetItem is tried with every index in -MaxIndex .. MaxIndex
MaxIndex == 3

\* ------------------------------------------------------- class attributes
\* NEONTreeSpecies.classes, in declaration order (keys only)
classes ==
  << "ACPE", "ACRU", "ACSA3", "AMLA", "BETUL", "CAGL8", "CATO6", "FAGR",
     "GOLA", "LITU", "LYLU3", "MAGNO", "NYBI", "NYSY", "OXYDE", "PEPA37",
     "PIEL", "PIPA2", "PINUS", "PITA", "PRSE2", "QUAL", "QUCO2", "QUGE2",
     "QUHE2", "QULA2", "QULA3", "QUMO4", "QUNI", "QURU", "QUERC", "ROPS",
     "TSCA" >>

\* self.num_classes
num_classes == Len(classes)

\* NEONTreeSpecies.metadata, the class attribute (urls abbreviated)
SplitMetadata ==
  [ train |-> [url |-> "dropbox/7hvacwqevxjxaa3", md5 |-> "None", filename |-> "train.zip"],
    test  |-> [url |-> "dropbox/iex5iy1czal5vlp", md5 |-> "None", filename |-> "test.zip"] ]

\* NEONTreeSpecies.directories
directories == [ train |-> <<"train">>, test |-> <<"test">> ]

\* the splits the constructor accepts
Splits == {"train", "test"}

\* split arguments a caller may pass: the two valid ones and an invalid one
SplitArgs == Splits \cup {"val"}

\* the default root argument
Root == <<"data">>

\* the three modalities' directory names
Modalities == {"RGB", "CHM", "HSI"}

\* bands of a well-formed tile of each modality (class docstring)
BandsOf == [ RGB |-> 3, CHM |-> 1, HSI |-> 369 ]

\* file names of the tiles, in directory listing order
TileNames == << "a.tif", "b.tif", "c.tif", "d.tif" >>

\* label codes used in the label tables: classes[1] and classes[22]
LabelCodes == { classes[1], classes[22] }

\* ---------------------------------------------------------------- values
\* Python's None
None == [kind |-> "None"]

\* the class-level metadata dict, as the value of the attribute `metadata`
ClassMetadata == [kind |-> "dict"]

\* a GeoDataFrame read from a shapefile
DataFrame(rows) == [kind |-> "DataFrame", rows |-> rows]

\* the table of n rows whose labels alternate between first and other;
\* row k is the shapefile's feature k-1
MkTable(n, first, other) ==
  [k \in 1..n |-> [fid |-> k - 1, label |-> IF k % 2 = 1 THEN first ELSE other]]

\* the label tables of at most MaxRows rows: neighbouring rows differ in label
Tables ==
  { MkTable(n, p[1], p[2]) :
      n \in 0..MaxRows, p \in { q \in LabelCodes \X LabelCodes : q[1] # q[2] } }

\* a label.shp file inside an archive or a directory: absent, or a table
ShpFiles == { [present |-> FALSE, rows |-> << >>] }
            \cup { [present |-> TRUE, rows |-> r] : r \in Tables }

\* os.path.join(a, b) for a single component b
Join(a, b) == a \o <<b>>

\* the tiles RGB/CHM/HSI of n complete tiles under directory dir
TileFiles(dir, n) ==
  { Join(Join(dir, m), TileNames[k]) : m \in Modalities, k \in 1..n }

\* the content of a tile file: its band count, by the modality directory
TileBands(path) == BandsOf[path[Len(path) - 1]]

\* a filesystem: existing directories, archives, rasters, shapefiles
MkFs(dirs, zips, tifpaths, shp) ==
  [ dirs |-> dirs, zips |-> zips,
    tifs |-> [p \in tifpaths |-> TileBands(p)],
    shp  |-> shp ]

\* no shapefile at all
NoShp == [p \in {} |-> << >>]

\* the shapefile map holding file f at path
ShpAt(path, f) == IF f.present THEN [p \in {path} |-> f.rows] ELSE NoShp

\* f @@ g for the shapefile maps
ShpMerge(f, g) ==
  [p \in (DOMAIN f) \cup (DOMAIN g) |-> IF p \in DOMAIN f THEN f[p] ELSE g[p]]

\* os.path.exists for directories and archives
Exists(fsv, path) == path \in fsv.dirs \/ path \in fsv.zips

\* ------------------------------------------------------- the environment
\* what the network and the archive hold when _verify reaches them:
\* dl, ex: whether download_url / extract_archive succeed;
\* tiles, shp: the content of the archive
Envs ==
  [ dl : {"ok", "DownloadError"}, ex : {"ok", "ExtractError"},
    tiles : 0..NumTiles, shp : ShpFiles ]

\* one call _verify makes to the filesystem or the network
Event(call, arg, ret) == [call |-> call, arg |-> arg, ret |-> ret]

\* Python's str(bool)
Str(b) == IF b THEN "True" ELSE "False"

\* utils.extract_archive(src, dst): creates dst holding the archive's content
extract_archive(fsv, src, dst, env) ==
  IF env.ex # "ok"
  THEN [result |-> env.ex, fs |-> fsv]
  ELSE [result |-> "ok",
        fs |-> [ dirs |-> fsv.dirs \cup {dst},
                 zips |-> fsv.zips,
                 tifs |-> [p \in (DOMAIN fsv.tifs) \cup TileFiles(dst, env.tiles) |->
                             IF p \in DOMAIN fsv.tifs THEN fsv.tifs[p] ELSE TileBands(p)],
                 shp  |-> ShpMerge(ShpAt(Join(dst, "label.shp"), env.shp), fsv.shp) ]]

\* utils.download_url(url, root, filename, md5): stores root/filename
download_url(fsv, url, root, filename, md5, env) ==
  IF env.dl # "ok"
  THEN [result |-> env.dl, fs |-> fsv]
  ELSE [result |-> "ok", fs |-> [fsv EXCEPT !.zips = @ \cup {Join(root, filename)}]]

\* the outcome of _verify: what it raised, what it called, what it left
VerifyOut(result, trace, fsv) == [result |-> result, trace |-> trace, fs |-> fsv]

\* `if not self.download`, as if the flag were never set
DownloadAlwaysRequested(download) == FALSE

\* `if not self.download`: the caller did not request the download
DownloadNotRequested(download) == ~download

\* _verify that prefers a fresh download over an archive lying under root
VerifyBodyDownloadFirst(root, split, download, checksum, fsv, env) ==
  LET url       == SplitMetadata[split].url
      md5       == SplitMetadata[split].md5
      filename  == SplitMetadata[split].filename
      dirnames  == directories[split]
      checks    == [k \in 1..Len(dirnames) |->
                      Event("exists", Join(root, dirnames[k]),
                            Str(Exists(fsv, Join(root, dirnames[k]))))]
      filepath  == Join(root, filename)
      zipcheck  == Event("exists", filepath, Str(Exists(fsv, filepath)))
      dst       == Join(root, split)
  IN  IF \A k \in 1..Len(dirnames) : Exists(fsv, Join(root, dirnames[k]))
      THEN VerifyOut("ok", checks, fsv)
      ELSE IF download
      THEN LET dl == download_url(fsv, url, root, filename,
                                  IF checksum THEN md5 ELSE "None", env)
               dlev == Event("download", filepath, dl.result)
           IN  IF dl.result # "ok"
               THEN VerifyOut(dl.result, checks \o <<zipcheck, dlev>>, fsv)
               ELSE LET ex == extract_archive(dl.fs, filepath, dst, env)
                    IN  VerifyOut(ex.result,
                                  checks \o <<zipcheck, dlev,
                                              Event("extract", filepath, ex.result)>>,
                                  ex.fs)
      ELSE IF Exists(fsv, filepath)
      THEN LET ex == extract_archive(fsv, filepath, dst, env)
           IN  VerifyOut(ex.result,
                         checks \o <<zipcheck, Event("extract", filepath, ex.result)>>,
                         ex.fs)
      ELSE VerifyOut("RuntimeError", checks \o <<zipcheck>>, fsv)

\* _verify, after the three lookups in self.metadata[self.split] succeeded
VerifyBody(root, split, download, checksum, fsv, env) ==
  LET url       == SplitMetadata[split].url
      md5       == SplitMetadata[split].md5
      filename  == SplitMetadata[split].filename
      dirnames  == directories[split]
      checks    == [k \in 1..Len(dirnames) |->
                      Event("exists", Join(root, dirnames[k]),
                            Str(Exists(fsv, Join(root, dirnames[k]))))]
      filepath  == Join(root, filename)
      zipcheck  == Event("exists", filepath, Str(Exists(fsv, filepath)))
      dst       == Join(root, split)
  IN  IF \A k \in 1..Len(dirnames) : Exists(fsv, Join(root, dirnames[k]))
      THEN VerifyOut("ok", checks, fsv)
      ELSE IF Exists(fsv, filepath)
      THEN LET ex == extract_archive(fsv, filepath, dst, env)
           IN  VerifyOut(ex.result,
                         checks \o <<zipcheck, Event("extract", filepath, ex.result)>>,
                         ex.fs)
      ELSE IF DownloadNotRequested(download)
      THEN VerifyOut("RuntimeError", checks \o <<zipcheck>>, fsv)
      ELSE LET dl == download_url(fsv, url, root, filename,
                                  IF checksum THEN md5 ELSE "None", env)
               dlev == Event("download", filepath, dl.result)
           IN  IF dl.result # "ok"
               THEN VerifyOut(dl.result, checks \o <<zipcheck, dlev>>, fsv)
               ELSE LET ex == extract_archive(dl.fs, filepath, dst, env)
                    IN  VerifyOut(ex.result,
                                  checks \o <<zipcheck, dlev,
                                              Event("extract", filepath, ex.result)>>,
                                  ex.fs)

\* self._verify(); meta is the value of self.metadata at the call
_verify(meta, root, split, download, checksum, fsv, env) ==
  IF meta.kind = "None"
  THEN VerifyOut("TypeError", << >>, fsv)
  ELSE IF meta.kind = "DataFrame"
  THEN VerifyOut("KeyError", << >>, fsv)
  ELSE IF split \notin DOMAIN SplitMetadata
  THEN VerifyOut("KeyError", << >>, fsv)
  ELSE VerifyBody(root, split, download, checksum, fsv, env)

\* glob.glob(os.path.join(directory, "*.tif")), in listing order
Glob(fsv, directory) ==
  SelectSeq([k \in 1..Len(TileNames) |-> Join(directory, TileNames[k])],
            LAMBDA p : p \in DOMAIN fsv.tifs)

\* self._load_labels(directory)
_load_labels(fsv, directory) ==
  LET path == Join(directory, "label.shp")
  IN  IF path \in DOMAIN fsv.shp
      THEN [result |-> "ok", gdf |-> DataFrame(fsv.shp[path])]
      ELSE [result |-> "DriverError", gdf |-> None]

\* the directory _load globs the rasters from
LoadDirectory(root, split) ==
  IF split = "train" THEN Join(root, directories[split][1]) ELSE root

\* self._load(root)
_load(fsv, root, split) ==
  LET directory == LoadDirectory(root, split)
      lab == IF split = "train" THEN _load_labels(fsv, directory)
             ELSE [result |-> "ok", gdf |-> None]
      data == [ RGB |-> Glob(fsv, Join(directory, "RGB")),
                CHM |-> Glob(fsv, Join(directory, "CHM")),
                HSI |-> Glob(fsv, Join(directory, "HSI")) ]
  IN  [result |-> lab.result, data |-> data, labels |-> lab.gdf, metadata |-> lab.gdf]

\* ------------------------------------------------------- indexed access
\* an index lookup that wraps around both ends instead of raising
PyListGetModulo(list, index) ==
  IF Len(list) = 0
  THEN [result |-> "IndexError", pos |-> 0]
  ELSE [result |-> "ok", pos |-> (index % Len(list)) + 1]

\* list.__getitem__(index): a negative index counts from the end
PyListGet(list, index) ==
  IF 0 <= index /\ index < Len(list)
  THEN [result |-> "ok", pos |-> index + 1]
  ELSE IF -Len(list) <= index /\ index < 0
  THEN [result |-> "ok", pos |-> Len(list) + index + 1]
  ELSE [result |-> "IndexError", pos |-> 0]

\* str.replace(old, new) on the components of a path: every occurrence
Replace(path, old, new) ==
  [k \in DOMAIN path |-> IF path[k] = old THEN new ELSE path[k]]

\* self._load_image(path): the bands rasterio reads from the file
_load_image(fsv, path) ==
  IF path \in DOMAIN fsv.tifs
  THEN [result |-> "ok", bands |-> fsv.tifs[path]]
  ELSE [result |-> "RasterioIOError", bands |-> 0]

\* self.metadata.iloc[0]
Iloc0(meta) ==
  IF meta.kind = "None" THEN [result |-> "AttributeError", row |-> None]
  ELSE IF meta.kind = "dict" THEN [result |-> "AttributeError", row |-> None]
  ELSE IF Len(meta.rows) = 0 THEN [result |-> "IndexError", row |-> None]
  ELSE [result |-> "ok", row |-> meta.rows[1]]

\* self.labels.label[index]: a lookup by the RangeIndex label `index`
LabelAt(labels, index) ==
  IF labels.kind # "DataFrame" THEN [result |-> "AttributeError", label |-> ""]
  ELSE IF 0 <= index /\ index < Len(labels.rows)
  THEN [result |-> "ok", label |-> labels.rows[index + 1].label]
  ELSE [result |-> "KeyError", label |-> ""]

\* the result of a call that raised
NoSample == [none |-> TRUE]

\* what a call that raised returns to GetItem's caller
Raised(err) == [result |-> err, sample |-> NoSample, path |-> << >>]

\* self.__getitem__(index), with self.transforms = None
getitem(fsv, split, data, labels, meta, index) ==
  LET at == PyListGet(data.RGB, index)
  IN  IF at.result # "ok" THEN Raised(at.result) ELSE
      LET path  == data.RGB[at.pos]
          image == _load_image(fsv, path)
          hsi   == _load_image(fsv, Replace(path, "RGB", "HSI"))
          chm   == _load_image(fsv, Replace(path, "RGB", "CHM"))
          md    == Iloc0(meta)
          lab   == LabelAt(labels, index)
      IN  IF image.result # "ok" THEN Raised(image.result)
          ELSE IF hsi.result # "ok" THEN Raised(hsi.result)
          ELSE IF chm.result # "ok" THEN Raised(chm.result)
          ELSE IF md.result # "ok" THEN Raised(md.result)
          ELSE IF split = "train"
          THEN IF lab.result # "ok" THEN Raised(lab.result)
               ELSE [result |-> "ok", path |-> path,
                     sample |-> [image |-> image.bands, hsi |-> hsi.bands,
                                 chm |-> chm.bands, metadata |-> md.row,
                                 label |-> lab.label]]
          ELSE [result |-> "ok", path |-> path,
                sample |-> [image |-> image.bands, hsi |-> hsi.bands,
                            chm |-> chm.bands, metadata |-> md.row]]

\* self.__len__()
len(data) == Len(data.RGB)

\* arguments tried with plot: the defaults, no titles under a suptitle,
\* a pair of bands, a band beyond the raster's
PlotArgs ==
  { [show_titles |-> TRUE,  suptitle |-> "None",  hsi_indices |-> <<55, 111, 170>>],
    [show_titles |-> FALSE, suptitle |-> "title", hsi_indices |-> <<55, 111, 170>>],
    [show_titles |-> TRUE,  suptitle |-> "None",  hsi_indices |-> <<55, 111>>],
    [show_titles |-> TRUE,  suptitle |-> "None",  hsi_indices |-> <<55, 111, 400>>] }

\* no figure
NoFigure == [none |-> TRUE]

\* self.plot(sample, show_titles, suptitle, hsi_indices)
plot(sample, show_titles, suptitle, hsi_indices) ==
  IF Len(hsi_indices) # 3
  THEN [result |-> "AssertionError", figure |-> NoFigure]
  ELSE IF \E k \in 1..3 : hsi_indices[k] >= sample.hsi
  THEN [result |-> "IndexError", figure |-> NoFigure]
  ELSE [result |-> "ok",
        figure |-> [ ncols |-> 3,
                     titles |-> IF show_titles
                                THEN <<"RGB", "Hyperspectral False Color Image",
                                       "Canopy Height Model">>
                                ELSE << >>,
                     suptitle |-> suptitle ]]

\* ------------------------------------------------------------- the state
VARIABLES
  pc,        \* "init" before the constructor ran, then "constructed" or "failed"
  split,     \* self.split
  download,  \* self.download
  checksum,  \* self.checksum
  data,      \* self.data: the Sample Index
  labels,    \* self.labels: the Label Table
  metadata,  \* self.metadata: the class attribute until __init__ rebinds it
  fs,        \* the filesystem under root
  last       \* the last call on the adapter and what it returned or raised

vars == <<pc, split, download, checksum, data, labels, metadata, fs, last>>

\* the record of a call
Call(op, args, result, trace, sample, path, value, figure) ==
  [ op |-> op, args |-> args, result |-> result, trace |-> trace,
    sample |-> sample, path |-> path, value |-> value, figure |-> figure ]

\* a call with no arguments
NoArgs == [none |-> TRUE]

\* a split directory on disk: absent, or holding tiles and maybe label.shp
TrainDirs ==
  { [present |-> FALSE, tiles |-> 0, shp |-> [present |-> FALSE, rows |-> << >>]] }
  \cup [ present : {TRUE}, tiles : 0..NumTiles, shp : ShpFiles ]

\* the test directory holds no label.shp
TestDirs ==
  { [present |-> FALSE, tiles |-> 0] } \cup [ present : {TRUE}, tiles : 0..NumTiles ]

\* the filesystem with the given directories, root-level tiles and archives
FsOf(top, train, test, zips) ==
  MkFs( (IF train.present THEN {Join(Root, "train")} ELSE {})
          \cup (IF test.present THEN {Join(Root, "test")} ELSE {}),
        zips,
        TileFiles(Root, top) \cup TileFiles(Join(Root, "train"), train.tiles)
          \cup TileFiles(Join(Root, "test"), test.tiles),
        ShpAt(Join(Join(Root, "train"), "label.shp"), train.shp) )

\* the archives that may lie under root
ArchivePaths == { Join(Root, SplitMetadata[s].filename) : s \in Splits }

\* the material of one split: its directory or its archive
Holds(train, test, zips, s) ==
  \/ (IF s = "train" THEN train.present ELSE test.present)
  \/ Join(Root, SplitMetadata[s].filename) \in zips

\* the filesystems the adapter is constructed over: root holds the material
\* of at most one split, and any number of root-level tiles
InitFs ==
  { FsOf(c[1], c[2], c[3], c[4]) :
      c \in { d \in (0..NumTiles) \X TrainDirs \X TestDirs \X (SUBSET ArchivePaths) :
                ~(Holds(d[2], d[3], d[4], "train") /\ Holds(d[2], d[3], d[4], "test")) } }

Init ==
  /\ pc = "init"
  /\ split = ""
  /\ download = FALSE
  /\ checksum = FALSE
  /\ data = [RGB |-> << >>, CHM |-> << >>, HSI |-> << >>]
  /\ labels = None
  /\ metadata = ClassMetadata
  /\ fs \in InitFs
  /\ last = Call("none", NoArgs, "ok", << >>, NoSample, << >>, 0, NoFigure)

\* the assert on the split argument, stripped
ValidSplitUnchecked(s) == TRUE

\* the assert on the split argument
ValidSplit(s) == s \in {"train", "test"}

\* a constructor call that raised err after _verify made the calls in trace
ConstructCall(s, dl, ck, err, trace) ==
  Call("construct", [split |-> s, download |-> dl, checksum |-> ck],
       err, trace, NoSample, << >>, 0, NoFigure)

\* the environment is drawn only where the call consulted it: a component
\* of env that _verify did not reach is left at its default
Consulted(trace, env) ==
  /\ (\A k \in DOMAIN trace : trace[k].call # "download") => env.dl = "ok"
  /\ (\A k \in DOMAIN trace : trace[k].call # "extract") => env.ex = "ok"
  /\ (\A k \in DOMAIN trace : ~(trace[k].call = "extract" /\ trace[k].ret = "ok"))
       => (env.tiles = 0 /\ ~env.shp.present)

\* NEONTreeSpecies(root, split, None, download, checksum); gpd: geopandas imports
Construct ==
  /\ pc = "init"
  /\ \E s \in SplitArgs, dl \in BOOLEAN, ck \in BOOLEAN :
       IF ~ValidSplit(s)
       THEN /\ pc' = "failed"
            /\ last' = ConstructCall(s, dl, ck, "AssertionError", << >>)
            /\ UNCHANGED <<split, download, checksum, data, labels, metadata, fs>>
       ELSE \E gpd \in BOOLEAN, env \in Envs :
            LET v == _verify(metadata, Root, s, dl, ck, fs, env)
                l == _load(v.fs, Root, s)
                err == IF v.result # "ok" THEN v.result
                       ELSE IF ~gpd THEN "ImportError"
                       ELSE l.result
            IN  /\ Consulted(v.trace, env)
                /\ v.result # "ok" => gpd
                /\ split' = s
                /\ download' = dl
                /\ checksum' = ck
                /\ fs' = v.fs
                /\ last' = ConstructCall(s, dl, ck, err, v.trace)
                /\ IF err = "ok"
                   THEN /\ pc' = "constructed"
                        /\ data' = l.data
                        /\ labels' = l.labels
                        /\ metadata' = l.metadata
                   ELSE /\ pc' = "failed"
                        /\ UNCHANGED <<data, labels, metadata>>

\* dataset[index] that takes the path out of the Sample Index (list.pop)
GetItemPop ==
  /\ pc = "constructed"
  /\ \E index \in -MaxIndex..MaxIndex :
       LET g == getitem(fs, split, data, labels, metadata, index)
           at == PyListGet(data.RGB, index)
       IN  /\ last' = Call("getitem", [index |-> index], g.result, << >>,
                           g.sample, g.path, 0, NoFigure)
           /\ data' = IF at.result = "ok"
                      THEN [data EXCEPT !.RGB =
                              SubSeq(@, 1, at.pos - 1) \o SubSeq(@, at.pos + 1, Len(@))]
                      ELSE data
  /\ UNCHANGED <<pc, split, download, checksum, labels, metadata, fs>>

\* dataset[index]
GetItem ==
  /\ pc = "constructed"
  /\ \E index \in -MaxIndex..MaxIndex :
       LET g == getitem(fs, split, data, labels, metadata, index)
       IN  last' = Call("getitem", [index |-> index], g.result, << >>,
                        g.sample, g.path, 0, NoFigure)
  /\ UNCHANGED <<pc, split, download, checksum, data, labels, metadata, fs>>

\* len(dataset)
Length ==
  /\ pc = "constructed"
  /\ last' = Call("len", NoArgs, "ok", << >>, NoSample, << >>, len(data), NoFigure)
  /\ UNCHANGED <<pc, split, download, checksum, data, labels, metadata, fs>>

\* dataset.plot(sample, ...) on the sample the last GetItem returned
Plot ==
  /\ pc = "constructed"
  /\ last.op = "getitem"
  /\ last.result = "ok"
  /\ \E a \in PlotArgs :
       LET f == plot(last.sample, a.show_titles, a.suptitle, a.hsi_indices)
       IN  last' = Call("plot", a, f.result, << >>, last.sample, << >>, 0, f.figure)
  /\ UNCHANGED <<pc, split, download, checksum, data, labels, metadata, fs>>

\* dataset._verify() called again on the constructed adapter
Verify ==
  /\ pc = "constructed"
  /\ \E env \in Envs :
       LET v == _verify(metadata, Root, split, download, checksum, fs, env)
       IN  /\ Consulted(v.trace, env)
           /\ fs' = v.fs
           /\ last' = Call("verify", NoArgs, v.result, v.trace,
                           NoSample, << >>, 0, NoFigure)
  /\ UNCHANGED <<pc, split, download, checksum, data, labels, metadata>>

Next == Construct \/ GetItem \/ Length \/ Plot \/ Verify

Spec == Init /\ [][Next]_vars

\* ---------------------------------------------------------- properties
\* the positions of the calls of one kind in a trace of _verify
Calls(trace, call) == { k \in DOMAIN trace : trace[k].call = call }

\* the paths of the split's expected subdirectories
SplitDirs(s) == { Join(Root, directories[s][k]) : k \in DOMAIN directories[s] }

\* the path of the split's archive
SplitArchive(s) == Join(Root, SplitMetadata[s].filename)

\* _verify looked for the split's subdirectories and found one missing
FoundDirsMissing(trace, s) ==
  \E k \in Calls(trace, "exists") : trace[k].arg \in SplitDirs(s) /\ trace[k].ret = "False"

\* _verify looked for the split's subdirectories and found them all
FoundDirsPresent(trace, s) ==
  /\ \E k \in Calls(trace, "exists") : trace[k].arg \in SplitDirs(s)
  /\ ~FoundDirsMissing(trace, s)

\* _verify looked for the split's archive, with this answer
FoundArchive(trace, s, ret) ==
  \E k \in Calls(trace, "exists") : trace[k].arg = SplitArchive(s) /\ trace[k].ret = ret

\* the last call was GetItem with an index in [0, Length())
ValidGetItem ==
  /\ pc = "constructed"
  /\ last.op = "getitem"
  /\ 0 <= last.args.index
  /\ last.args.index < len(data)

\* the *.tif files in {root}/{split}/RGB
SplitRGBFiles(fsv, s) ==
  { p \in DOMAIN fsv.tifs : SubSeq(p, 1, Len(p) - 1) = Join(Join(Root, s), "RGB") }

\* C1: Verify() called again on a constructed adapter whose split
\* subdirectories exist returns normally and downloads and extracts nothing.
C1_VerifyIdempotent ==
  (pc = "constructed" /\ last.op = "verify"
     /\ \A d \in SplitDirs(split) : Exists(fs, d))
  => /\ last.result = "ok"
     /\ Calls(last.trace, "download") = {}
     /\ Calls(last.trace, "extract") = {}

\* C2: for either split, GetItem(i) with 0 <= i < Length() succeeds and
\* returns the three rasters with 3, 369 and 1 channels.  Stated for the
\* datasets whose label table has one row per RGB tile, so that only the
\* split decides the outcome.
C2_GetItemThreeRasters ==
  (ValidGetItem /\ (split = "train" => Len(labels.rows) = len(data)))
  => /\ last.result = "ok"
     /\ last.sample.image = 3
     /\ last.sample.hsi = 369
     /\ last.sample.chm = 1

\* C3: for both splits, Length() is the number of *.tif files in
\* {root}/{split}/RGB.
C3_LengthCountsSplitRGB ==
  (pc = "constructed" /\ last.op = "len")
  => last.value = Cardinality(SplitRGBFiles(fs, split))

\* C4 as claimed: GetItem(index) with any index outside [0, Length()),
\* negative ones included, fails with an index error and returns no sample.
C4_OutOfRangeIndexError ==
  (pc = "constructed" /\ last.op = "getitem"
     /\ (last.args.index < 0 \/ last.args.index >= len(data)))
  => (last.result = "IndexError" /\ last.sample = NoSample)

\* C4 as amended: GetItem(index) with index >= Length() or index < -Length()
\* fails with an index error and returns no sample.
C4_BeyondBothEndsIndexError ==
  (pc = "constructed" /\ last.op = "getitem"
     /\ (last.args.index < -len(data) \/ last.args.index >= len(data)))
  => (last.result = "IndexError" /\ last.sample = NoSample)

\* C4 witness: a non-empty Sample Index was asked for an index below -Length().
C4_Witness ==
  /\ pc = "constructed"
  /\ last.op = "getitem"
  /\ len(data) > 0
  /\ last.args.index < -len(data)
  /\ last.result = "IndexError"

\* C5 as claimed: with download=False and the split's subdirectories missing,
\* construction fails with the missing-data error and downloads nothing.
C5_MissingDirsIsFatal ==
  (last.op = "construct" /\ ~last.args.download
     /\ FoundDirsMissing(last.trace, last.args.split))
  => (last.result = "RuntimeError" /\ Calls(last.trace, "download") = {})

\* C5 as amended: with download=False, the split's subdirectories missing and
\* the split's archive missing too, construction fails with the missing-data
\* error and downloads nothing.
C5_MissingDirsAndArchiveIsFatal ==
  (last.op = "construct" /\ ~last.args.download
     /\ FoundDirsMissing(last.trace, last.args.split)
     /\ FoundArchive(last.trace, last.args.split, "False"))
  => (last.result = "RuntimeError" /\ pc = "failed"
        /\ Calls(last.trace, "download") = {})

\* C5 witness: a construction with download=False found neither the
\* subdirectories nor the archive and raised the missing-data error.
C5_Witness ==
  /\ last.op = "construct"
  /\ ~last.args.download
  /\ FoundDirsMissing(last.trace, last.args.split)
  /\ FoundArchive(last.trace, last.args.split, "False")
  /\ last.result = "RuntimeError"

\* C6: on the training split the label of the sample GetItem(i) returns is
\* the label of row i of the Label Table; on the test split GetItem(i)
\* returns a sample that has no label field.
C6_LabelIsRowLabel ==
  ValidGetItem
  => IF split = "train"
     THEN last.result = "ok"
            => last.sample.label = labels.rows[last.args.index + 1].label
     ELSE last.result = "ok" /\ "label" \notin DOMAIN last.sample

\* C7: a constructor call with a split other than "train" and "test" fails
\* with the configuration error before _verify checked, extracted or
\* downloaded anything.
C7_InvalidSplitFailsFirst ==
  (last.op = "construct" /\ last.args.split \notin Splits)
  => /\ last.result = "AssertionError"
     /\ pc = "failed"
     /\ last.trace = << >>

\* C7 witness: the constructor was called with split "val", download=True.
C7_Witness ==
  /\ last.op = "construct"
  /\ last.args.split = "val"
  /\ last.args.download
  /\ last.result = "AssertionError"

\* C8: on a constructed adapter no GetItem, Length or Plot call changes the
\* Sample Index or the Label Table; Length() keeps returning the length of
\* that index and GetItem(i) keeps reading the path at position i of it.
C8_IndexAndTableFrozen ==
  [][ (pc = "constructed" /\ last'.op \in {"getitem", "len", "plot"})
      => /\ data' = data
         /\ labels' = labels
         /\ last'.op = "len" => last'.value = Len(data.RGB)
         /\ (last'.op = "getitem" /\ last'.result = "ok" /\ last'.args.index >= 0)
              => last'.path = data.RGB[last'.args.index + 1] ]_vars

\* C8 witness: a sample of a non-empty Sample Index was read and plotted.
C8_Witness ==
  /\ pc = "constructed"
  /\ last.op = "plot"
  /\ last.result = "ok"
  /\ len(data) > 0

\* C9: one call of _verify downloads at most once and extracts at most once;
\* with the subdirectories present it does neither; else with the archive
\* present it extracts and does not download, even when download=True; else
\* it downloads only when download=True, and then extracts after the
\* download; a failed download or extraction is what the call raises, and
\* nothing follows it.
C9_VerifyDecisionOrder ==
  (last.op \in {"construct", "verify"} /\ last.trace # << >>)
  => LET t == last.trace
         D == Calls(t, "download")
         X == Calls(t, "extract")
     IN  /\ Cardinality(D) <= 1
         /\ Cardinality(X) <= 1
         /\ FoundDirsPresent(t, split) => (D = {} /\ X = {})
         /\ (FoundDirsMissing(t, split) /\ FoundArchive(t, split, "True"))
              => (D = {} /\ Cardinality(X) = 1)
         /\ D # {} <=> /\ download
                       /\ FoundDirsMissing(t, split)
                       /\ FoundArchive(t, split, "False")
         /\ \A d \in D, x \in X : d < x
         /\ \A d \in D : IF t[d].ret = "ok"
                         THEN Cardinality(X) = 1
                         ELSE X = {} /\ last.result = t[d].ret /\ d = Len(t)
         /\ \A x \in X : /\ x = Len(t)
                         /\ t[x].arg = SplitArchive(split)
                         /\ t[x].ret # "ok" => last.result = t[x].ret

\* C9 witness: a construction with download=True over an archive lying under
\* root extracted it without downloading.
C9_Witness ==
  /\ last.op = "construct"
  /\ last.args.download
  /\ FoundArchive(last.trace, split, "True")
  /\ Calls(last.trace, "extract") # {}
  /\ Calls(last.trace, "download") = {}
  /\ last.result = "ok"

\* C10: on the training split the metadata of the sample GetItem(i) returns
\* is row i of the Label Table, the row that supplies the label.
C10_MetadataIsRowI ==
  (ValidGetItem /\ split = "train" /\ last.result = "ok")
  => last.sample.metadata = labels.rows[last.args.index + 1]

====
